---------------------------- MODULE Spec2Model ----------------------------
(***************************************************************************)
(* Model of scripts/update-template.js: the Monitor Extractor              *)
(* (extractMonitorIds), the Template Patcher (updateIssueTemplate) and     *)
(* the pipeline (main) that runs one after the other.                      *)
(*                                                                         *)
(* A text is a sequence of tokens.  A token is one character (a quote, a   *)
(* bracket, a newline "nl", a space "sp", "$", a digit, "-") or a word of  *)
(* characters that no pattern of the program tells apart from each other   *)
(* ("i" is the literal `id:`, "n" is `name:`, "m" is `monitors: `,         *)
(* "options:", "type:", ...).  Offsets are 0-based as in JavaScript and -1 *)
(* is "not found".                                                         *)
(***************************************************************************)
EXTENDS Integers, Sequences, FiniteSets, TLC

VARIABLES
  configFile,    \* content of uptime.config.ts, or NoFile
  templateFile,  \* content of .github/ISSUE_TEMPLATE/maintenance.yml, or NoFile
  monitors,      \* the collection returned by extractMonitorIds / handed to updateIssueTemplate
  pc,            \* position in main (or in the direct caller)
  success,       \* what the last updateIssueTemplate call returned: "true", "false" ("none" before it)
  exitCode,      \* -1 while running, otherwise the process exit status
  writes,        \* number of fs.writeFileSync calls made on the template
  log,           \* messages printed so far
  declared,      \* history: the monitors a generated configuration declares
  original,      \* history: the template before the first updateIssueTemplate call
  firstResult    \* history: the template after the first updateIssueTemplate call

vars == <<configFile, templateFile, monitors, pc, success, exitCode, writes, log,
          declared, original, firstResult>>

\* ------------------------------------------------------------------ bounds

\* Longest arbitrary configuration text, in pieces (see ConfigPieces).
MaxConfigPieces == 4
\* Longest arbitrary template core, in pieces (see TemplatePieces).
MaxTemplatePieces == 4
\* Largest number of monitors in a generated configuration or a hand-built collection.
MaxMonitors == 2

\* ------------------------------------------------------------------ texts

\* The content of a file that does not exist (or cannot be read): no text is this one.
NoFile == <<"ENOENT">>

Min(S) == CHOOSE x \in S : \A y \in S : x <= y
Max(S) == CHOOSE x \in S : \A y \in S : x >= y

\* text[i] of JavaScript: the token at 0-based offset i, "" (undefined) outside.
At(text, i) == IF i >= 0 /\ i < Len(text) THEN text[i + 1] ELSE ""

\* text.slice(from, to)
Slice(text, from, to) ==
  SubSeq(text, (IF from < 0 THEN 0 ELSE from) + 1, IF to > Len(text) THEN Len(text) ELSE to)

RECURSIVE Flatten(_)
Flatten(ss) == IF ss = <<>> THEN <<>> ELSE Head(ss) \o Flatten(Tail(ss))

SeqsUpTo(S, k) == UNION {[1..n -> S] : n \in 0..k}

\* The character classes of the patterns.
IsQuote(c) == c \in {"'", "dq", "bt"}          \* ['"`]
IsSpace(c) == c \in {"sp", "nl"}               \* \s

\* Number of whitespace tokens from offset i on (the longest \s* can take).
RECURSIVE SpaceRun(_, _)
SpaceRun(text, i) == IF IsSpace(At(text, i)) THEN 1 + SpaceRun(text, i + 1) ELSE 0

\* ------------------------------------------------------------------ extractMonitorIds

\* The literal 'monitors: [' : the word `monitors: ` and the bracket.
Marker == <<"m", "[">>

\* One match of /key\s*['"`]([^'"`]+)['"`]/ starting exactly at offset p:
\* [index, value, end] or [index |-> -1] when the pattern does not match there.
NoMatch == [index |-> -1, value |-> <<>>, end |-> -1]
KeyMatchAt(text, key, p) ==
  LET open == p + 1 + SpaceRun(text, p + 1)
      closers == {k \in (open + 1)..(Len(text) - 1) : IsQuote(At(text, k))}
      close == IF closers = {} THEN -1 ELSE Min(closers)
  IN IF At(text, p) = key /\ IsQuote(At(text, open)) /\ close > open + 1
     THEN [index |-> p, value |-> Slice(text, open + 1, close), end |-> close + 1]
     ELSE NoMatch

\* [...text.matchAll(/key.../g)]: the matches left to right, each search resuming
\* where the previous match ended.
RECURSIVE MatchAllFrom(_, _, _)
MatchAllFrom(text, key, from) ==
  LET starts == {p \in from..(Len(text) - 1) : KeyMatchAt(text, key, p).index # -1}
  IN IF starts = {} THEN <<>>
     ELSE LET m == KeyMatchAt(text, key, Min(starts))
          IN <<m>> \o MatchAllFrom(text, key, m.end)

idMatches(text) == MatchAllFrom(text, "i", 0)
nameMatches(text) == MatchAllFrom(text, "n", 0)

\* configContent.indexOf('monitors: [')
monitorsStartPos(text) ==
  LET hits == {p \in 0..(Len(text) - 1) :
                 Slice(text, p, p + Len(Marker)) = Marker /\ p + Len(Marker) <= Len(text)}
  IN IF hits = {} THEN -1 ELSE Min(hits)

\* A faulty variant of ScanClosing: the next `]`, whatever the depth.
ScanFirstClosing(text, i, bracketCount) ==
  LET closers == {j \in i..(Len(text) - 1) : At(text, j) = "]"}
  IN IF closers = {} THEN -1 ELSE Min(closers)

\* The for loop of lines 31-40 from offset i on, with the counter at bracketCount.
\* An iteration changes nothing unless configContent[i] is a bracket, so the scan
\* goes from one bracket to the next.
RECURSIVE ScanClosing(_, _, _)
ScanClosing(text, i, bracketCount) ==
  LET brackets == {j \in i..(Len(text) - 1) : At(text, j) \in {"[", "]"}}
  IN IF brackets = {} THEN -1
     ELSE LET j == Min(brackets)
          IN IF At(text, j) = "[" THEN ScanClosing(text, j + 1, bracketCount + 1)
             ELSE IF bracketCount = 0 THEN j
             ELSE ScanClosing(text, j + 1, bracketCount - 1)

monitorsEndPos(text) == ScanClosing(text, monitorsStartPos(text) + Len(Marker), 0)

\* A faulty variant of InRegion: the upper bound of the filter forgotten.
InRegionNoEnd(matches, start, end) ==
  SelectSeq(matches, LAMBDA match : match.index > start)

\* matches.filter(match => match.index > monitorsStartPos && match.index < monitorsEndPos)
InRegion(matches, start, end) ==
  SelectSeq(matches, LAMBDA match : match.index > start /\ match.index < end)

\* Math.min
MathMin(a, b) == IF a < b THEN a ELSE b

\* A faulty variant of PairUp: the surplus dropped at the front of the names, not at the end.
PairUpLastNames(monitorIds, monitorNames) ==
  LET n == MathMin(Len(monitorIds), Len(monitorNames))
  IN [i \in 1..n |->
        [id |-> monitorIds[i].value, name |-> monitorNames[Len(monitorNames) - n + i].value]]

\* The pairing loop of lines 56-61.
PairUp(monitorIds, monitorNames) ==
  [i \in 1..MathMin(Len(monitorIds), Len(monitorNames)) |->
     [id |-> monitorIds[i].value, name |-> monitorNames[i].value]]

\* A faulty variant of extractMonitorIds: the test of line 42 without monitorsStartPos === -1.
extractWithoutStartCheck(file) ==
  IF file = NoFile
  THEN [monitors |-> <<>>, printed |-> {"Error reading config file"}]
  ELSE LET start == monitorsStartPos(file)
           end == monitorsEndPos(file)
       IN IF end = -1
          THEN [monitors |-> <<>>, printed |-> {"Could not find monitors array in config"}]
          ELSE [monitors |-> PairUp(InRegion(idMatches(file), start, end),
                                    InRegion(nameMatches(file), start, end)),
                printed |-> {}]

\* extractMonitorIds(): what it returns and what it prints.
extractMonitorIds(file) ==
  IF file = NoFile
  THEN [monitors |-> <<>>, printed |-> {"Error reading config file"}]
  ELSE LET start == monitorsStartPos(file)
           end == monitorsEndPos(file)
       IN IF start = -1 \/ end = -1
          THEN [monitors |-> <<>>, printed |-> {"Could not find monitors array in config"}]
          ELSE [monitors |-> PairUp(InRegion(idMatches(file), start, end),
                                    InRegion(nameMatches(file), start, end)),
                printed |-> {}]

\* ------------------------------------------------------------------ updateIssueTemplate

Spaces(k) == [i \in 1..k |-> "sp"]

RECURSIVE Join(_, _)
\* Array.prototype.join
Join(parts, sep) ==
  IF parts = <<>> THEN <<>>
  ELSE IF Len(parts) = 1 THEN parts[1]
  ELSE parts[1] \o sep \o Join(Tail(parts), sep)

\* `        - label: '${monitor.id} - ${monitor.name}'\n          value: '${monitor.id}'`
OptionRecord(monitor) ==
  Spaces(8) \o <<"-", "sp", "label:", "sp", "'">> \o monitor.id \o <<"sp", "-", "sp">>
    \o monitor.name \o <<"'", "nl">>
    \o Spaces(10) \o <<"value:", "sp", "'">> \o monitor.id \o <<"'">>

\* monitors.map(...).join('\n')
monitorOptions(ms) == Join([i \in 1..Len(ms) |-> OptionRecord(ms[i])], <<"nl">>)

\* `\n        - label: 'All monitors'\n          value: 'all'`
AllMonitorsSuffix ==
  <<"nl">> \o Spaces(8) \o <<"-", "sp", "label:", "sp", "'", "All", "sp", "monitors", "'", "nl">>
    \o Spaces(10) \o <<"value:", "sp", "'", "all", "'">>

allOptions(ms) == monitorOptions(ms) \o AllMonitorsSuffix

\* The third group (\n\n|\n  - type:) at offset q: its length there, 0 when neither
\* alternative matches.
NextField == <<"nl", "sp", "sp", "-", "sp", "type:">>
TerminatorLen(text, q) ==
  IF At(text, q) = "nl" /\ At(text, q + 1) = "nl" THEN Len(<<"nl", "nl">>)
  ELSE IF q + Len(NextField) <= Len(text) /\ Slice(text, q, q + Len(NextField)) = NextField
       THEN Len(NextField)
       ELSE 0

\* ([\s\S]*?)(\n\n|\n  - type:) from offset from on: the lazy middle stops at the
\* first offset where a terminator matches; -1 when there is none.
FirstTerminator(text, from) ==
  LET hits == {q \in from..(Len(text) - 1) : TerminatorLen(text, q) > 0}
  IN IF hits = {} THEN -1 ELSE Min(hits)

\* (options:\s*\n) at offset p: the offsets just after the group, one for each
\* number of tokens the greedy \s* can keep so that a \n follows.
FirstGroupEnds(text, p) ==
  IF At(text, p) # "options:" THEN {}
  ELSE {p + 1 + k + 1 : k \in {j \in 0..SpaceRun(text, p + 1) : At(text, p + 1 + j) = "nl"}}

\* The match of optionsRegex at offset p: the greedy \s* gives back tokens until
\* the rest of the pattern matches.
OptionsMatchAt(text, p) ==
  LET ends == {e \in FirstGroupEnds(text, p) : FirstTerminator(text, e) # -1}
  IN IF ends = {} THEN [index |-> -1, g1End |-> -1, g3Start |-> -1, end |-> -1]
     ELSE LET e == Max(ends)
              q == FirstTerminator(text, e)
          IN [index |-> p, g1End |-> e, g3Start |-> q, end |-> q + TerminatorLen(text, q)]

\* optionsRegex.exec(text): the leftmost match.
optionsRegex(text) ==
  LET starts == {p \in 0..(Len(text) - 1) : OptionsMatchAt(text, p).index # -1}
  IN IF starts = {} THEN OptionsMatchAt(text, -1) ELSE OptionsMatchAt(text, Min(starts))

\* GetSubstitution of String.prototype.replace: the replacement text with its
\* $-patterns expanded for match m of text, scanned left to right from one `$` to
\* the next ($$, $&, $`, $', $1..$3; any other `$` stands for itself).
RECURSIVE GetSubstitution(_, _, _)
GetSubstitution(repl, text, m) ==
  LET dollars == {i \in 1..Len(repl) : repl[i] = "$"}
  IN IF dollars = {} THEN repl
     ELSE LET d == Min(dollars)
              c == IF d < Len(repl) THEN repl[d + 1] ELSE ""
              literal == SubSeq(repl, 1, d - 1)
              rest == GetSubstitution(SubSeq(repl, d + 2, Len(repl)), text, m)
          IN CASE c = "$" -> literal \o <<"$">> \o rest
               [] c = "&" -> literal \o Slice(text, m.index, m.end) \o rest
               [] c = "bt" -> literal \o Slice(text, 0, m.index) \o rest
               [] c = "'" -> literal \o Slice(text, m.end, Len(text)) \o rest
               [] c = "1" -> literal \o Slice(text, m.index, m.g1End) \o rest
               [] c = "2" -> literal \o Slice(text, m.g1End, m.g3Start) \o rest
               [] c = "3" -> literal \o Slice(text, m.g3Start, m.end) \o rest
               [] OTHER -> literal \o <<"$">>
                             \o GetSubstitution(SubSeq(repl, d + 1, Len(repl)), text, m)

\* A faulty variant of replacement: the terminator group left out.
replacementWithoutTerminator(ms) == <<"$", "1">> \o allOptions(ms)

\* `$1${allOptions}$3`
replacement(ms) == <<"$", "1">> \o allOptions(ms) \o <<"$", "3">>

\* templateContent.replace(optionsRegex, replacement): the first match replaced,
\* the text itself when nothing matches.
Replace(text, repl) ==
  LET m == optionsRegex(text)
  IN IF m.index = -1 THEN text
     ELSE Slice(text, 0, m.index) \o GetSubstitution(repl, text, m)
            \o Slice(text, m.end, Len(text))

\* updateIssueTemplate(monitors) when the template exists and the file system
\* accepts the read and the write: the new content is written, true is returned.
UpdateWritten(ms) ==
  /\ templateFile # NoFile
  /\ templateFile' = Replace(templateFile, replacement(ms))
  /\ writes' = writes + 1
  /\ success' = "true"
  /\ UNCHANGED log

\* updateIssueTemplate(monitors) when fs.existsSync says the template is missing.
UpdateNotFound ==
  /\ templateFile = NoFile
  /\ log' = log \cup {"Issue template not found"}
  /\ success' = "false"
  /\ UNCHANGED <<templateFile, writes>>

\* updateIssueTemplate(monitors) when readFileSync or writeFileSync throws: the catch
\* block prints and returns false, the file keeps its content.
UpdateIOError ==
  /\ templateFile # NoFile
  /\ log' = log \cup {"Error updating template"}
  /\ success' = "false"
  /\ UNCHANGED <<templateFile, writes>>

updateIssueTemplate(ms) == UpdateNotFound \/ UpdateWritten(ms) \/ UpdateIOError

\* ------------------------------------------------------------------ inputs

\* Arbitrary configuration texts: every sequence of at most MaxConfigPieces pieces.
\* A piece is the marker, a bracket, a quote, an id field, a name field, or a
\* record with both (without whitespace after the key and with quotes of other
\* kinds, a closing one that differs from the opening one too).
ConfigPiece(name) ==
  CASE name = "M" -> Marker
    [] name = "[" -> <<"[">>
    [] name = "]" -> <<"]">>
    [] name = "Q" -> <<"'">>
    [] name = "Ia" -> <<"i", "sp", "'", "a", "'">>
    [] name = "Nx" -> <<"n", "sp", "'", "x", "'">>
    [] name = "Rby" -> <<"i", "dq", "b", "dq", "x", "n", "bt", "y", "dq">>

ConfigPieces == {"M", "[", "]", "Q", "Ia", "Nx", "Rby"}

ArbitraryConfigs ==
  {Flatten([i \in DOMAIN ps |-> ConfigPiece(ps[i])]) : ps \in SeqsUpTo(ConfigPieces, MaxConfigPieces)}

\* Well-formed configuration texts: text outside the collection, the marker, the
\* monitor records (each declaring one id and one name, in either order, with
\* bracketed fields such as expectedCodes: [200] before or between them), the
\* closing bracket and more text outside.
IdValues == {"a", "b"}
NameValues == {"x", "y"}
RecordShapes == [id : IdValues, name : NameValues, nameFirst : BOOLEAN, nested : {"none", "before", "between"}]

IdField(v) == <<"i", "sp", "'", v, "'">>
NameField(v) == <<"n", "sp", "'", v, "'">>

RecordText(r) ==
  LET first == IF r.nameFirst THEN NameField(r.name) ELSE IdField(r.id)
      second == IF r.nameFirst THEN IdField(r.id) ELSE NameField(r.name)
  IN <<"x">>
       \o (IF r.nested = "before" THEN <<"x", "[", "x", "]", "x">> ELSE <<>>)
       \o first \o <<"x">>
       \o (IF r.nested = "between" THEN <<"[", "[", "x", "]", "x", "]", "x">> ELSE <<>>)
       \o second \o <<"x">>

\* Text before the marker: nothing, or a title, a bracketed list and an id / name
\* pair that belong to something else.
OutsideBefore ==
  {<<>>,
   <<"x", "dq", "x", "'", "x", "dq", "[", "x", "]">> \o IdField("z") \o NameField("w") \o <<"x">>}

\* Text after the closing bracket: nothing, or an id / name pair and a later
\* `monitors: ['a']` list that belong to something else.
OutsideAfter ==
  {<<>>,
   <<"x">> \o IdField("z") \o NameField("w") \o <<"x">> \o Marker \o <<"'", "a", "'", "]", "x">>}

WellFormedText(before, records, after) ==
  before \o Marker \o Flatten([i \in DOMAIN records |-> RecordText(records[i])])
    \o <<"]">> \o after

Declares(records) ==
  [i \in DOMAIN records |-> [id |-> <<records[i].id>>, name |-> <<records[i].name>>]]

Unknown == [known |-> FALSE, entries |-> <<>>]
Known(entries) == [known |-> TRUE, entries |-> entries]

\* uptime.config.ts as shipped, token by token: the quotes, the brackets, `id:`,
\* `name:` and `monitors: [` wherever they occur (in comments and inside words
\* too); "x" is any other run of characters, "sp" a run of whitespace.
ShippedConfig ==
  <<
    "x", "'", "x", "'", "x", "'", "x", "'", "x", "dq", "x", "'", "x", "dq", "x", "bt", "x",
    "bt", "x", "bt", "x", "bt", "x", "[", "x", "'", "x", "'", "x", "'", "x", "'", "x", "'",
    "x", "'", "x", "'", "x", "'", "x", "'", "x", "'", "x", "'", "x", "'", "x", "]", "x", "[",
    "x", "]", "x", "'", "x", "'", "x", "[", "'", "x", "'", "x", "'", "x", "'", "x", "'", "x",
    "'", "]", "x", "'", "x", "'", "x", "[", "'", "x", "'", "]", "x", "[", "x", "]", "x", "'",
    "x", "'", "x", "'", "x", "'", "x", "[", "x", "]", "x", "[", "x", "]", "x", "'", "x", "'",
    "x", "'", "x", "'", "x", "bt", "x", "bt", "x", "'", "x", "n", "x", "'", "x", "m", "[", "x",
    "bt", "x", "bt", "x", "bt", "x", "bt", "x", "i", "sp", "'", "foo_monitor", "'", "x", "bt",
    "x", "bt", "x", "n", "sp", "'", "My API Monitor", "'", "x", "bt", "x", "bt", "x", "'", "x",
    "'", "x", "bt", "x", "bt", "x", "'", "x", "'", "x", "[", "x", "]", "sp", "bt", "x", "bt",
    "x", "'", "x", "'", "x", "[", "x", "]", "sp", "bt", "x", "bt", "x", "'", "x", "'", "x", "[",
    "x", "]", "sp", "bt", "x", "bt", "x", "[", "x", "]", "sp", "bt", "x", "bt", "x", "[", "x",
    "]", "x", "[", "x", "]", "sp", "bt", "x", "bt", "x", "[", "x", "]", "x", "'", "x", "'", "x",
    "'", "x", "'", "x", "'", "x", "'", "x", "[", "x", "]", "x", "'", "x", "'", "x", "[", "x",
    "]", "x", "'", "x", "'", "x", "[", "x", "]", "x", "'", "x", "'", "x", "[", "x", "]", "x",
    "bt", "x", "bt", "x", "bt", "x", "bt", "x", "'", "x", "'", "x", "[", "x", "]", "x", "i",
    "sp", "'", "test_tcp_monitor", "'", "x", "n", "sp", "'", "Example TCP Monitor", "'", "x",
    "bt", "x", "bt", "x", "bt", "x", "bt", "x", "'", "x", "'", "x", "bt", "x", "bt", "x", "bt",
    "x", "bt", "x", "'", "x", "'", "x", "'", "x", "'", "x", "'", "x", "'", "x", "]", "x", "[",
    "x", "]", "x", "[", "x", "]", "x", "[", "x", "]", "x", "'", "x", "'", "x", "[", "x", "]",
    "x", "'", "x", "'", "x", "'", "x", "'", "x", "'", "x", "'", "x", "[", "x", "]", "x", "'",
    "x", "'", "x", "[", "x", "]", "x", "'", "x", "'", "x", "'", "x", "'", "x", "'", "x", "'",
    "x", "'", "x", "'", "x", "'", "x", "'", "x", "'", "x", "'", "x", "'", "x", "'", "x", "'",
    "x", "'", "x", "'", "x", "'", "x", "[", "x", "]", "x", "i", "x", "'", "x", "'", "x", "[",
    "x", "]", "x", "[", "x", "]", "x", "dq", "x", "dq", "x", "'", "x", "'", "x", "[", "x", "]",
    "x", "[", "x", "]", "x", "[", "'", "x", "'", "x", "'", "x", "'", "]", "x", "'", "x", "'",
    "x", "'", "x", "'", "x", "[", "]", "x", "[", "x", "m", "[", "'", "x", "'", "]", "x", "'",
    "x", "'", "x", "'", "x", "'", "x", "'", "x", "'", "x", "'", "x", "'", "x", "'", "x", "'",
    "x", "]", "x", "[", "]", "x", "[", "x", "]", "x", "'", "x"
  >>
ShippedDeclares ==
  <<[id |-> <<"foo_monitor">>, name |-> <<"My API Monitor">>],
    [id |-> <<"test_tcp_monitor">>, name |-> <<"Example TCP Monitor">>]>>

\* What the Extractor is run on: no readable file, the shipped configuration, the
\* well-formed texts and the arbitrary ones.
ExtractInputs ==
  {[text |-> NoFile, declares |-> Unknown], [text |-> ShippedConfig, declares |-> Known(ShippedDeclares)]}
    \cup {[text |-> t, declares |-> Unknown] : t \in ArbitraryConfigs}
    \cup {[text |-> WellFormedText(b, rs, a), declares |-> Known(Declares(rs))] :
            b \in OutsideBefore, rs \in SeqsUpTo(RecordShapes, MaxMonitors), a \in OutsideAfter}

\* Templates: every sequence of at most MaxTemplatePieces pieces. A piece is the
\* marker, a newline, a space, other text, the start of a `  - type:` line, or a
\* blank line followed by a later dropdown section with options of its own.
TemplatePiece(name) ==
  CASE name = "O" -> <<"options:">>
    [] name = "NL" -> <<"nl">>
    [] name = "SP" -> <<"sp">>
    [] name = "X" -> <<"x">>
    [] name = "TY" -> <<"sp", "sp", "-", "sp", "type:">>
    [] name = "S2" -> <<"nl", "nl", "x", "nl", "options:", "nl", "x", "nl", "nl", "x">>

TemplatePieces == {"O", "NL", "SP", "X", "TY", "S2"}

Templates ==
  {Flatten([i \in DOMAIN ps |-> TemplatePiece(ps[i])]) : ps \in SeqsUpTo(TemplatePieces, MaxTemplatePieces)}

\* Hand-built collections for updateIssueTemplate: at most MaxMonitors entries; one
\* name ends in a `$`.
HandBuiltEntries ==
  {[id |-> <<"a">>, name |-> <<"x">>], [id |-> <<"b">>, name |-> <<"y", "$">>]}

Collections == SeqsUpTo(HandBuiltEntries, MaxMonitors)

\* Configurations the pipeline is run on, one for each way extraction can end: no
\* readable file, no marker, no closing bracket, an empty collection, a collection
\* with an id and no name, one monitor, two monitors.
PipelineConfigs ==
  {NoFile,
   IdField("a") \o NameField("x"),
   Marker \o IdField("a") \o NameField("x"),
   Marker \o <<"x", "]">>,
   Marker \o IdField("a") \o <<"]">> \o NameField("x"),
   WellFormedText(<<>>, <<[id |-> "a", name |-> "x", nameFirst |-> FALSE, nested |-> "before"]>>, <<>>),
   WellFormedText(<<>>, <<[id |-> "a", name |-> "x", nameFirst |-> FALSE, nested |-> "none"],
                          [id |-> "b", name |-> "y", nameFirst |-> TRUE, nested |-> "between"]>>, <<>>)}

\* ------------------------------------------------------------------ direct calls

\* A caller of the exported extractMonitorIds.
CallExtract ==
  /\ pc = "start"
  /\ LET r == extractMonitorIds(configFile)
     IN /\ monitors' = r.monitors
        /\ log' = log \cup r.printed
  /\ pc' = "extracted"
  /\ UNCHANGED <<configFile, templateFile, success, exitCode, writes, declared, original,
                 firstResult>>

InitExtract ==
  /\ \E c \in ExtractInputs : configFile = c.text /\ declared = c.declares
  /\ templateFile = NoFile
  /\ monitors = <<>>
  /\ pc = "start"
  /\ success = "none"
  /\ exitCode = -1
  /\ writes = 0
  /\ log = {}
  /\ original = NoFile
  /\ firstResult = NoFile

SpecExtract == InitExtract /\ [][CallExtract]_vars

\* A caller of the exported updateIssueTemplate that calls it twice in succession
\* with the same hand-built collection.
CallUpdate ==
  /\ pc \in {"first", "second"}
  /\ updateIssueTemplate(monitors)
  /\ pc' = IF pc = "first" THEN "second" ELSE "done"
  /\ firstResult' = IF pc = "first" THEN templateFile' ELSE firstResult
  /\ UNCHANGED <<configFile, monitors, exitCode, declared, original>>

InitPatch ==
  /\ configFile = NoFile
  /\ templateFile \in Templates \cup {NoFile}
  /\ monitors \in Collections
  /\ pc = "first"
  /\ success = "none"
  /\ exitCode = -1
  /\ writes = 0
  /\ log = {}
  /\ declared = Unknown
  /\ original = templateFile
  /\ firstResult = NoFile

SpecPatch == InitPatch /\ [][CallUpdate]_vars

\* ------------------------------------------------------------------ main

MainExtract ==
  /\ pc = "main"
  /\ LET r == extractMonitorIds(configFile)
     IN /\ monitors' = r.monitors
        /\ log' = log \cup r.printed
  /\ pc' = "extracted"
  /\ UNCHANGED <<configFile, templateFile, success, exitCode, writes, declared, original,
                 firstResult>>

\* A faulty variant of MainNoMonitors: process.exit(1) forgotten, main goes on to the update.
MainNoMonitorsGoesOn ==
  /\ pc = "extracted"
  /\ Len(monitors) = 0
  /\ updateIssueTemplate(monitors)
  /\ pc' = "updated"
  /\ firstResult' = templateFile'
  /\ UNCHANGED <<configFile, monitors, exitCode, declared, original>>

\* if (monitors.length === 0) { ...; process.exit(1) }
MainNoMonitors ==
  /\ pc = "extracted"
  /\ Len(monitors) = 0
  /\ log' = log \cup {"No monitors found in configuration"}
  /\ exitCode' = 1
  /\ pc' = "exited"
  /\ UNCHANGED <<configFile, templateFile, monitors, success, writes, declared, original,
                 firstResult>>

\* const success = updateIssueTemplate(monitors)
MainUpdate ==
  /\ pc = "extracted"
  /\ Len(monitors) # 0
  /\ updateIssueTemplate(monitors)
  /\ pc' = "updated"
  /\ firstResult' = templateFile'
  /\ UNCHANGED <<configFile, monitors, exitCode, declared, original>>

\* if (success) { ... }: main returns and the process ends with status 0.
MainSuccess ==
  /\ pc = "updated"
  /\ success = "true"
  /\ log' = log \cup {"Issue template updated successfully!"}
  /\ exitCode' = 0
  /\ pc' = "exited"
  /\ UNCHANGED <<configFile, templateFile, monitors, success, writes, declared, original,
                 firstResult>>

\* else { ...; process.exit(1) }
MainFailure ==
  /\ pc = "updated"
  /\ success = "false"
  /\ log' = log \cup {"Failed to update issue template"}
  /\ exitCode' = 1
  /\ pc' = "exited"
  /\ UNCHANGED <<configFile, templateFile, monitors, success, writes, declared, original,
                 firstResult>>

Init ==
  /\ configFile \in PipelineConfigs
  /\ templateFile \in Templates \cup {NoFile}
  /\ monitors = <<>>
  /\ pc = "main"
  /\ success = "none"
  /\ exitCode = -1
  /\ writes = 0
  /\ log = {}
  /\ declared = Unknown
  /\ original = templateFile
  /\ firstResult = NoFile

Next == MainExtract \/ MainNoMonitors \/ MainUpdate \/ MainSuccess \/ MainFailure

Spec == Init /\ [][Next]_vars

\* ------------------------------------------------------------------ properties

\* The brackets that close at depth zero from offset a on: a `]` before which as
\* many `[` as `]` occur since a.
BalancedClosers(text, a) ==
  {i \in a..(Len(text) - 1) :
     /\ At(text, i) = "]"
     /\ Cardinality({j \in a..(i - 1) : At(text, j) = "["})
          = Cardinality({j \in a..(i - 1) : At(text, j) = "]"})}

\* Offsets at which the text reads `monitors: [`.
MarkerOffsets(text) == {p \in 0..(Len(text) - 2) : At(text, p) = "m" /\ At(text, p + 1) = "["}

\* The source region of a configuration text, found by counting: [start, end], with
\* -1 for what is missing.
SourceRegion(text) ==
  IF MarkerOffsets(text) = {} THEN [start |-> -1, end |-> -1]
  ELSE LET s == Min(MarkerOffsets(text))
           closers == BalancedClosers(text, s + 2)
       IN [start |-> s, end |-> IF closers = {} THEN -1 ELSE Min(closers)]

RegionFound(text) == SourceRegion(text).start # -1 /\ SourceRegion(text).end # -1

\* The matches of a list that start strictly inside the region, as a sub-list: the
\* offsets grow along the list, so they are the ones numbered lo + 1 .. hi.
Inside(matches, region) ==
  LET lo == Cardinality({k \in 1..Len(matches) : matches[k].index <= region.start})
      hi == Cardinality({k \in 1..Len(matches) : matches[k].index < region.end})
  IN IF hi <= lo THEN <<>> ELSE SubSeq(matches, lo + 1, hi)

Extracted == pc = "extracted" /\ configFile # NoFile

\* C3: in every run of main the template is written at most once, and only after
\* extraction returned at least one entry; a run whose extraction returned nothing
\* ends with status 1, never reaches updateIssueTemplate and leaves the template as
\* it was.
WriteAfterFullSuccess ==
  /\ writes <= 1
  /\ pc = "main" => writes = 0 /\ templateFile = original
  /\ (writes = 1 \/ pc = "updated" \/ templateFile # original) => Len(monitors) >= 1
  /\ templateFile # original => writes = 1
  /\ (pc = "exited" /\ Len(monitors) = 0) =>
       exitCode = 1 /\ writes = 0 /\ templateFile = original /\ success = "none"
  /\ exitCode = 0 => writes = 1

\* C3 witness: a run on a configuration without the `monitors: [` marker (but with
\* id and name fields) and a template whose options region matches has ended with
\* status 1.
NoMarkerRunAborted ==
  /\ pc = "exited" /\ exitCode = 1 /\ writes = 0
  /\ configFile # NoFile /\ MarkerOffsets(configFile) = {}
  /\ Len(idMatches(configFile)) > 0 /\ Len(nameMatches(configFile)) > 0
  /\ templateFile # NoFile /\ optionsRegex(templateFile).index # -1

\* C2: when the options pattern matches nowhere in the template, the patch fails:
\* updateIssueTemplate does not report success, the template keeps its content and
\* the run ends with a non-zero status.
MissingTargetFails ==
  (/\ pc = "exited"
   /\ Len(monitors) >= 1
   /\ original # NoFile
   /\ optionsRegex(original).index = -1)
  => (success = "false" /\ exitCode # 0 /\ templateFile = original)

\* C5: for a well-formed configuration (N >= 0 records inside the collection, each
\* with one id and one name), extractMonitorIds returns the N declared (id, name)
\* pairs in declaration order; fields outside the collection add nothing.
ExtractsDeclared ==
  (pc = "extracted" /\ declared.known) => monitors = declared.entries

\* C5 witness: the shipped configuration has been extracted, with its two monitors.
ShippedExtracted ==
  /\ pc = "extracted"
  /\ configFile = ShippedConfig
  /\ monitors = ShippedDeclares
  /\ Len(idMatches(configFile)) = 2
  /\ Len(nameMatches(configFile)) = 2

\* C6: the closing boundary the scan chooses is the first `]` after the marker
\* before which as many `[` as `]` occur (-1 when there is none), so a nested
\* bracket pair never ends the region early: the monitors declared after it are
\* still extracted, N in all.
RegionBoundary ==
  Extracted =>
    /\ monitorsStartPos(configFile) = SourceRegion(configFile).start
    /\ monitorsStartPos(configFile) # -1 =>
         monitorsEndPos(configFile) = SourceRegion(configFile).end
    /\ declared.known =>
         /\ RegionFound(configFile)
         /\ Len(monitors) = Len(declared.entries)
         /\ Len(Inside(idMatches(configFile), SourceRegion(configFile)))
              = Len(declared.entries)
         /\ Len(Inside(nameMatches(configFile), SourceRegion(configFile)))
              = Len(declared.entries)

\* C6 witness: a configuration whose first record holds a nested bracket pair before
\* its id has been extracted, and two monitors came out.
NestedBracketsExtracted ==
  /\ Extracted /\ declared.known /\ Len(monitors) = 2
  /\ \E j \in 0..(Len(configFile) - 1) :
       /\ j > monitorsStartPos(configFile) + 1
       /\ At(configFile, j) = "]"
       /\ j < monitorsEndPos(configFile)
       /\ \A k \in 1..Len(idMatches(configFile)) :
            idMatches(configFile)[k].index > monitorsStartPos(configFile)
              => idMatches(configFile)[k].index > j

\* C7: when a source region is found, the entries are the in-region id matches
\* paired by position with the in-region name matches, as many as the shorter list
\* has; the surplus is dropped and nothing is reported.
PairingInvariant ==
  (Extracted /\ RegionFound(configFile)) =>
    LET ids == Inside(idMatches(configFile), SourceRegion(configFile))
        names == Inside(nameMatches(configFile), SourceRegion(configFile))
    IN /\ Len(monitors) = (IF Len(ids) < Len(names) THEN Len(ids) ELSE Len(names))
       /\ \A i \in 1..Len(monitors) :
            monitors[i].id = ids[i].value /\ monitors[i].name = names[i].value
       /\ log = {}

\* C7 witness: a region with more id matches than name matches has been extracted,
\* and an entry came out.
SurplusDropped ==
  /\ Extracted /\ RegionFound(configFile)
  /\ Len(Inside(idMatches(configFile), SourceRegion(configFile)))
       > Len(Inside(nameMatches(configFile), SourceRegion(configFile)))
  /\ Len(monitors) >= 1

\* C9: without the marker, or without a `]` balancing its bracket, extractMonitorIds
\* returns the empty sequence and reports the missing array, whatever id and name
\* matches the text holds; a region that is found and holds no id match or no name
\* match yields the empty sequence too, and no missing array is reported.
MissingRegionHandling ==
  Extracted =>
    LET region == SourceRegion(configFile)
        ids == Inside(idMatches(configFile), region)
        names == Inside(nameMatches(configFile), region)
    IN /\ ~RegionFound(configFile) =>
            monitors = <<>> /\ log = {"Could not find monitors array in config"}
       /\ (RegionFound(configFile) /\ (Len(ids) = 0 \/ Len(names) = 0)) =>
            monitors = <<>> /\ log = {}

\* C9 witness: a text with the marker, id and name matches after it and no balancing
\* `]` has been extracted: nothing came out.
UnclosedRegionYieldsNothing ==
  /\ Extracted
  /\ SourceRegion(configFile).start # -1 /\ SourceRegion(configFile).end = -1
  /\ \E k \in 1..Len(idMatches(configFile)) :
       idMatches(configFile)[k].index > SourceRegion(configFile).start
  /\ \E k \in 1..Len(nameMatches(configFile)) :
       nameMatches(configFile)[k].index > SourceRegion(configFile).start
  /\ monitors = <<>>

\* Offsets of the line breaks that follow an `options:` at offset p with nothing but
\* whitespace in between.
LineBreaksAfter(text, p) ==
  {e \in (p + 1)..(Len(text) - 1) :
     At(text, e) = "nl" /\ \A j \in (p + 1)..(e - 1) : At(text, j) \in {"sp", "nl"}}

\* Offsets of an `options:` that whitespace and a line break follow.
OptionsLines(text) ==
  {p \in 0..(Len(text) - 1) : At(text, p) = "options:" /\ LineBreaksAfter(text, p) # {}}

\* A blank line, or the start of a `  - type:` line, at offset q.
IsTerminator(text, q) ==
  /\ At(text, q) = "nl"
  /\ \/ At(text, q + 1) = "nl"
     \/ /\ At(text, q + 1) = "sp" /\ At(text, q + 2) = "sp" /\ At(text, q + 3) = "-"
        /\ At(text, q + 4) = "sp" /\ At(text, q + 5) = "type:"

TerminatorsFrom(text, from) == {q \in from..(Len(text) - 1) : IsTerminator(text, q)}

\* The text after is the text before with the part from offset a up to offset b
\* replaced by something: what precedes a and what follows b are the same tokens.
OnlyChangedBetween(before, after, a, b) ==
  /\ Len(after) >= a + (Len(before) - b)
  /\ Slice(after, 0, a) = Slice(before, 0, a)
  /\ Slice(after, Len(after) - (Len(before) - b), Len(after)) = Slice(before, b, Len(before))

FirstCallWrote == pc = "second" /\ writes = 1

\* C1: calling updateIssueTemplate twice in succession with the same collection
\* leaves the template as the first call left it.
PatchIdempotent ==
  (pc = "done" /\ writes = 2) => templateFile = firstResult

\* C4: a patch leaves the text up to the end of the matched `options:` marker and
\* the text from the matched terminator on as they were; a call that does not
\* write, or that finds no match, leaves the whole text as it was.
NonInterference ==
  /\ (pc = "second" /\ writes = 0) => templateFile = original
  /\ FirstCallWrote =>
       LET m == optionsRegex(original)
       IN IF m.index = -1 THEN templateFile = original
          ELSE OnlyChangedBetween(original, templateFile, m.g1End, m.g3Start)

\* C4 witness: a template with text before the marker and text after the terminator
\* has been patched, and the patch changed it.
PatchedInTheMiddle ==
  /\ FirstCallWrote
  /\ optionsRegex(original).index > 0
  /\ optionsRegex(original).end < Len(original)
  /\ templateFile # original

\* The option record of an entry and the one of "All monitors", as two lines.
RecordOf(entry) ==
  Spaces(8) \o <<"-", "sp", "label:", "sp", "'">> \o entry.id \o <<"sp", "-", "sp">>
    \o entry.name \o <<"'">>
    \o <<"nl">> \o Spaces(10) \o <<"value:", "sp", "'">> \o entry.id \o <<"'">>

AllMonitorsRecord ==
  Spaces(8) \o <<"-", "sp", "label:", "sp", "'", "All", "sp", "monitors", "'">>
    \o <<"nl">> \o Spaces(10) \o <<"value:", "sp", "'", "all", "'">>

RECURSIVE SeparatedByNewlines(_)
SeparatedByNewlines(records) ==
  IF Len(records) = 1 THEN records[1]
  ELSE records[1] \o <<"nl">> \o SeparatedByNewlines(Tail(records))

HasDollar(ms) ==
  \E i \in 1..Len(ms) :
    (\E k \in 1..Len(ms[i].id) : ms[i].id[k] = "$")
      \/ (\E k \in 1..Len(ms[i].name) : ms[i].name[k] = "$")

\* C8: the option block rendered for N entries is N + 1 records, one for each entry
\* in order and then the "All monitors" one, with one newline between consecutive
\* records and nothing else; it is what a patch puts between marker and terminator.
RendersRecords ==
  (FirstCallWrote /\ optionsRegex(original).index # -1 /\ ~HasDollar(monitors)) =>
    LET block == SeparatedByNewlines([i \in 1..(Len(monitors) + 1) |->
                   IF i <= Len(monitors) THEN RecordOf(monitors[i]) ELSE AllMonitorsRecord])
        m == optionsRegex(original)
    IN /\ allOptions(monitors) = block
       /\ Slice(templateFile, m.g1End, Len(templateFile) - (Len(original) - m.g3Start))
            = block

\* C10: a patch rewrites one region: it starts after the first `options:` that a
\* line break follows and ends at the first blank line or `  - type:` line after
\* that line break; the text from there on, later options sections included, is as
\* it was.
RegionEndsAtFirstBlankLine ==
  (FirstCallWrote /\ OptionsLines(original) # {}) =>
    LET p == Min(OptionsLines(original))
        e0 == Min(LineBreaksAfter(original, p)) + 1
    IN TerminatorsFrom(original, e0) # {} =>
         OnlyChangedBetween(original, templateFile, e0, Min(TerminatorsFrom(original, e0)))
=============================================================================
